---- MODULE Spec2Model ----
(***************************************************************************)
(* gin-contrib/zap: the request-logging middleware (Logger, OnLevel,       *)
(* GinzapWithConfig) and the panic-recovery middleware (Recovery), run     *)
(* inside gin's handler chain (Context.Next / Abort) against a zap logger. *)
(*                                                                         *)
(* One behaviour attaches the middlewares once (Init chooses the           *)
(* configuration and the chain) and then serves the requests of `reqs`.    *)
(* A request's goroutine is modelled by its call stack: c[r].stack holds   *)
(* the frames of the running Next loops and middleware closures, and       *)
(* c[r].panic the value of a panic that is unwinding that stack.           *)
(*                                                                         *)
(* Panic values are non-nil: under Go >= 1.21 panic(nil) raises a          *)
(* *runtime.PanicNilError, so recover() never returns nil while panicking. *)
(***************************************************************************)
EXTENDS Integers, Sequences, FiniteSets, TLC

VARIABLES
    conf,       \* the access logger's Config (and which constructor built it)
    rconf,      \* the Recovery middleware's Config, and its stack flag
    coreLevel,  \* the minimum level the zap logger's core enables
    handlers,   \* gin's handler chain: "L" access logger, "R" Recovery, "H" a route handler
    reqs,       \* the requests served in this behaviour
    c,          \* c[r]: the gin.Context of request r
    logs,       \* the records written to the zap logger, in order
    now,        \* the wall clock (time.Now())
    g           \* g[r]: history of request r, read only by the properties

vars == <<conf, rconf, coreLevel, handlers, reqs, c, logs, now, g>>

----------------------------------------------------------------------------
(* Bounds of the model *)

MaxErrors == 2      \* errors one request accumulates
MaxDelay == 1       \* clock ticks one route handler takes
MaxDelayConcurrent == 1     \* the same, in the runs of concurrent requests

----------------------------------------------------------------------------
(* Constants of zap, net/http and gin that the code names *)

DebugLevel == -1
InfoLevel == 0
WarnLevel == 1
ErrorLevel == 2
StatusInternalServerError == 500
StatusNoContent == 204
defaultStatus == 200
abortIndex == 63

RFC3339 == "2006-01-02T15:04:05Z07:00"
RecoveryMessage == "[Recovery from panic]"
testPath == "/test"
noLogPath == "/no_log"

----------------------------------------------------------------------------
(* strings.ToLower and strings.Contains, computed on the characters *)

UpperLetters == "ABCDEFGHIJKLMNOPQRSTUVWXYZ"
LowerLetters == "abcdefghijklmnopqrstuvwxyz"

LowerChar(ch) ==
    IF \E i \in 1..Len(UpperLetters) : SubSeq(UpperLetters, i, i) = ch
    THEN LET i == CHOOSE k \in 1..Len(UpperLetters) : SubSeq(UpperLetters, k, k) = ch
         IN  SubSeq(LowerLetters, i, i)
    ELSE ch

RECURSIVE ToLower(_)
ToLower(s) ==
    IF Len(s) = 0 THEN ""
    ELSE LowerChar(SubSeq(s, 1, 1)) \o ToLower(SubSeq(s, 2, Len(s)))

Contains(s, sub) ==
    \E i \in 1..(Len(s) - Len(sub) + 1) : SubSeq(s, i, i + Len(sub) - 1) = sub

(* fmt.Sprintf("%02d", n) for 0 <= n < 100 *)
Digits == "0123456789"
Digit(d) == SubSeq(Digits, d + 1, d + 1)
Pad2(n) == Digit((n \div 10) % 10) \o Digit(n % 10)

----------------------------------------------------------------------------
(* Values *)

NoPanic == [type |-> "none", syscall |-> "", errType |-> "", text |-> ""]

(* What a route handler may panic with.  A *net.OpError wraps Err; an
   *os.SyscallError prints as Syscall + ": " + Err. *)
PanicValues ==
    { [type |-> "string", syscall |-> "", errType |-> "", text |-> "boom"],
      [type |-> "error", syscall |-> "", errType |-> "", text |-> "broken pipe"],
      [type |-> "*net.OpError", syscall |-> "write", errType |-> "*os.SyscallError",
       text |-> "broken pipe"],
      [type |-> "*net.OpError", syscall |-> "read", errType |-> "*os.SyscallError",
       text |-> "Connection Reset By Peer"],
      [type |-> "*net.OpError", syscall |-> "connect", errType |-> "*os.SyscallError",
       text |-> "connection refused"],
      [type |-> "*net.OpError", syscall |-> "", errType |-> "*errors.errorString",
       text |-> "broken pipe"] }

(* SyscallError.Error() and OpError.Error() *)
SyscallErrorText(v) == v.syscall \o ": " \o v.text
ErrorText(v) ==
    IF v.type = "*net.OpError"
    THEN "write tcp: " \o (IF v.errType = "*os.SyscallError" THEN SyscallErrorText(v) ELSE v.text)
    ELSE v.text

NewError(text) == [type |-> "error", syscall |-> "", errType |-> "", text |-> text]

(* The errors a handler run registers: errors.New("error1"), then "error2", ... *)
ErrTexts == <<"error1", "error2", "error3", "error4">>

(* The error lists one handler run registers, at most n long *)
ErrLists(n) ==
    { [i \in 1..k |-> NewError(ErrTexts[i])] : k \in 0..(IF n < 0 THEN 0 ELSE n) }

(* time.Time: an instant and the location it is rendered in; UTC_KeepLocation
   is a conversion that leaves the location as it was *)
Time(t, loc) == [t |-> t, loc |-> loc]
UTC_KeepLocation(tm) == tm
UTC(tm) == Time(tm.t, "UTC")
Sub(end, start) == end.t - start.t

(* Time.Format: the instant's seconds, moved by the location's offset (Local is
   one hour east of UTC here), then the zone suffix the layout asks for *)
Format(tm, layout) ==
    IF tm.loc = "UTC"
    THEN "1970-01-01T00:00:" \o Pad2(tm.t) \o "Z"
    ELSE "1970-01-01T01:00:" \o Pad2(tm.t) \o "+01:00"

(* zap.Field *)
Field(key, type, val) == [key |-> key, type |-> type, val |-> val]

Record(r, by, level, msg, fields) ==
    [req |-> r, by |-> by, level |-> level, msg |-> msg, fields |-> fields]

(* Logger.Check: a CheckedEntry unless the core disables the level *)
Check(lvl) == lvl >= coreLevel

----------------------------------------------------------------------------
(* Configuration *)

(* custom field functions, each from the context to one field *)
CustomField(name, ctx) ==
    IF name = "stack" THEN Field("stack", "ByteString", "goroutine 1 [running]")
    ELSE IF name = "cf_path" THEN Field("cf_path", "String", ctx.Path)
    ELSE Field("cf_errors", "Int", Len(ctx.Errors))

RECURSIVE CustomFields(_, _)
CustomFields(fns, ctx) ==
    IF fns = <<>> THEN <<>>
    ELSE <<CustomField(Head(fns), ctx)>> \o CustomFields(Tail(fns), ctx)

(* Config.Context: from the context to a list of fields *)
ContextFields(fn, ctx) ==
    IF fn = "none" THEN <<>>
    ELSE <<Field("request_id", "String", "1234"), Field("ctx_query", "String", ctx.RawQuery)>>

(* regexp.MatchString for the pattern ^/no_\s*: the path starts with /no_ *)
MatchString(re, path) ==
    /\ re = "^/no_\\s*"
    /\ Len(path) >= 4
    /\ SubSeq(path, 1, 4) = "/no_"

(* Config.Skipper of the tests: c.Request.URL.Path == "/no_log" *)
Skipper(fn, ctx) ==
    /\ fn = "path_is_no_log"
    /\ ctx.Path = noLogPath

BaseConf ==
    [variant |-> "Logger", timeFormat |-> RFC3339, utc |-> FALSE, customFields |-> <<>>,
     lvl |-> InfoLevel, skipPaths |-> {}, skipPathRegexps |-> <<>>, skipper |-> "none",
     logErrorsOnce |-> FALSE, context |-> "none"]

(* Logger(logger, opts...): WithTimeFormat, WithUTC, WithCustomFields *)
LoggerConfs ==
    { [BaseConf EXCEPT !.utc = u, !.customFields = cf] :
        u \in BOOLEAN, cf \in {<<>>, <<"cf_path", "cf_errors">>} }

(* OnLevel(logger, lvl, timeFormat, utc); Ginzap is OnLevel at InfoLevel *)
OnLevelConfs ==
    { [BaseConf EXCEPT !.variant = "OnLevel", !.lvl = l, !.utc = TRUE] :
        l \in {DebugLevel, InfoLevel, WarnLevel} }

(* the skip rules of a Config: none, or one of the three kinds *)
SkipRules ==
    { [skipPaths |-> {}, skipPathRegexps |-> <<>>, skipper |-> "none"],
      [skipPaths |-> {noLogPath}, skipPathRegexps |-> <<>>, skipper |-> "none"],
      [skipPaths |-> {}, skipPathRegexps |-> <<"^/no_\\s*">>, skipper |-> "none"],
      [skipPaths |-> {}, skipPathRegexps |-> <<>>, skipper |-> "path_is_no_log"] }

(* GinzapWithConfig(logger, &Config{...}) *)
GinzapWithConfigConfs ==
    { [BaseConf EXCEPT !.variant = "GinzapWithConfig", !.utc = TRUE, !.lvl = WarnLevel,
                       !.skipPaths = sk.skipPaths,
                       !.skipPathRegexps = sk.skipPathRegexps,
                       !.skipper = sk.skipper,
                       !.logErrorsOnce = once] :
        sk \in SkipRules, once \in BOOLEAN } \cup
    { [BaseConf EXCEPT !.variant = "GinzapWithConfig", !.utc = u, !.lvl = l,
                       !.context = x[1], !.customFields = x[2]] :
        u \in BOOLEAN, l \in {InfoLevel, WarnLevel},
        x \in { <<"none", <<>> >>, <<"fn", <<"cf_path", "cf_errors">> >> } }

(* the configurations the access logger is attached with; StackedConfs are
   those it has in a chain that also holds Recovery *)
AccessConfs == LoggerConfs \cup OnLevelConfs \cup GinzapWithConfigConfs
StackedConfs ==
    { cf \in AccessConfs :
        \/ cf.variant = "Logger" /\ ~cf.utc
        \/ cf.variant = "OnLevel" /\ cf.lvl = InfoLevel
        \/ cf.variant = "GinzapWithConfig" /\ cf.lvl = WarnLevel /\ cf.context = "none" }

BaseRConf == [timeFormat |-> RFC3339, utc |-> FALSE, customFields |-> <<>>, stack |-> FALSE]

(* Recovery(logger, stack, opts...): the stack function is appended to the
   custom fields when the middleware is built *)
RecoveryConf(stack, utc, cf) ==
    [timeFormat |-> RFC3339, utc |-> utc, stack |-> stack,
     customFields |-> IF stack THEN cf \o <<"stack">> ELSE cf]

(* Recovery(logger, stack, WithUTC(utc), WithCustomFields(...)) as it is attached *)
RecoveryConfs ==
    { RecoveryConf(FALSE, FALSE, <<>>), RecoveryConf(TRUE, FALSE, <<>>),
      RecoveryConf(FALSE, TRUE, <<"cf_path">>), RecoveryConf(TRUE, TRUE, <<"cf_path">>) }

Chains == { <<"L", "H">>, <<"R", "H", "H">>, <<"R", "L", "H">>, <<"L", "R", "H">> }

----------------------------------------------------------------------------
(* gin.Context *)

Frame(fn, start, path, query, skip) ==
    [fn |-> fn, start |-> start, path |-> path, query |-> query, skip |-> skip]

NextFrame == Frame("Next", Time(0, "Local"), "", "", FALSE)

NewContext ==
    [phase |-> "new", Path |-> "", RawQuery |-> "", RequestURI |-> "", Method |-> "GET",
     index |-> -1, Errors |-> <<>>, status |-> defaultStatus, written |-> FALSE,
     stack |-> <<>>, panic |-> NoPanic]

Snapshot(ctx) ==
    [status |-> ctx.status, written |-> ctx.written, Errors |-> ctx.Errors,
     aborted |-> ctx.index >= abortIndex, Path |-> ctx.Path, RawQuery |-> ctx.RawQuery]

(* History: the inbound request, how often each middleware called Next and
   each handler ran, and the context as downstream left it when the Next call
   of the access logger (retL) or of Recovery (retR, or the panic) ended; the
   clock when the access logger was entered (startL) and left (endL) and when
   Recovery caught (catchT); the value a handler panicked with (thrown) and
   the value that unwound the access logger's frame (passedL) *)
NewHistory ==
    [path0 |-> "", query0 |-> "", ran |-> 0, nextL |-> 0, nextR |-> 0,
     skipped |-> FALSE, retL |-> FALSE, retR |-> FALSE,
     snapL |-> Snapshot(NewContext), snapR |-> Snapshot(NewContext),
     caught |-> NoPanic, ranAtCatch |-> 0, exitL |-> FALSE, exitR |-> FALSE,
     startL |-> 0, endL |-> 0, catchT |-> 0, thrown |-> NoPanic, passedL |-> NoPanic]

Top(r) == c[r].stack[Len(c[r].stack)]
Pop(s) == SubSeq(s, 1, Len(s) - 1)
Running(r) == c[r].phase = "running" /\ c[r].stack # <<>>
Panicking(r) == c[r].panic # NoPanic

(* Context.IsAborted *)
IsAborted(ctx) == ctx.index >= abortIndex

----------------------------------------------------------------------------
Init ==
    /\ handlers \in Chains
    /\ conf \in (IF handlers = <<"L", "H">> THEN AccessConfs
                 ELSE IF handlers = <<"R", "H", "H">> THEN {BaseConf}
                 ELSE StackedConfs)
    /\ rconf \in (IF handlers = <<"R", "H", "H">> THEN RecoveryConfs ELSE {BaseRConf})
    /\ coreLevel \in (IF \/ conf.variant = "OnLevel"
                         \/ (conf = BaseConf /\ handlers = <<"L", "H">>)
                      THEN {InfoLevel, WarnLevel}
                      ELSE {InfoLevel})
    /\ reqs = {1}
    /\ c = [r \in reqs |-> NewContext]
    /\ g = [r \in reqs |-> NewHistory]
    /\ logs = <<>>
    /\ now = 0

----------------------------------------------------------------------------
(* The access logger *)

(* a skip decision that forgets the patterns and the skipper *)
ShouldSkip_PathsOnly(cfg, ctx) == ctx.Path \in cfg.skipPaths

(* GinzapWithConfig's skip decision: the skipper, the exact paths, the patterns *)
ShouldSkip(cfg, ctx) ==
    \/ (cfg.skipper # "none" /\ Skipper(cfg.skipper, ctx))
    \/ ctx.Path \in cfg.skipPaths
    \/ \E i \in 1..Len(cfg.skipPathRegexps) : MatchString(cfg.skipPathRegexps[i], ctx.Path)

(* the errors logged as one record, joined as c.Errors.String() would *)
ErrorRecords_Joined(r, errs) ==
    << Record(r, "Logger", ErrorLevel,
              IF Len(errs) = 1 THEN ErrorText(errs[1])
              ELSE ErrorText(errs[1]) \o "\n" \o ErrorText(errs[2]), <<>>) >>

(* only the first error logged *)
ErrorRecords_FirstOnly(r, errs) ==
    << Record(r, "Logger", ErrorLevel, ErrorText(errs[1]), <<>>) >>

(* for _, e := range c.Errors.Errors() { logger.Error(e) } *)
ErrorRecords(r, errs) ==
    [i \in 1..Len(errs) |-> Record(r, "Logger", ErrorLevel, ErrorText(errs[i]), <<>>)]

(* the message of LogErrorsOnce with the index counted from 00 *)
RECURSIVE ErrorsOnceMessage_ZeroBased(_, _)
ErrorsOnceMessage_ZeroBased(errs, i) ==
    IF i > Len(errs) THEN ""
    ELSE "Error #" \o Pad2(i - 1) \o ": " \o ErrorText(errs[i]) \o "\n"
         \o ErrorsOnceMessage_ZeroBased(errs, i + 1)

(* The one message of LogErrorsOnce: "Error #%02d: %s\n" per error *)
RECURSIVE ErrorsOnceMessage(_, _)
ErrorsOnceMessage(errs, i) ==
    IF i > Len(errs) THEN ""
    ELSE "Error #" \o Pad2(i) \o ": " \o ErrorText(errs[i]) \o "\n"
         \o ErrorsOnceMessage(errs, i + 1)

ClientIP(ctx) == "192.0.2.1"
UserAgent(ctx) == "curl/7.29.0"

(* Logger reading the path and the query from the request after c.Next() *)
LoggerRecords_LivePath(r, f, ctx, end0) ==
    IF Len(ctx.Errors) > 0
    THEN ErrorRecords(r, ctx.Errors)
    ELSE << Record(r, "Logger", InfoLevel, ctx.Path,
              << Field("status", "Int", ctx.status),
                 Field("method", "String", ctx.Method),
                 Field("path", "String", ctx.Path),
                 Field("query", "String", ctx.RawQuery),
                 Field("ip", "String", ClientIP(ctx)),
                 Field("user-agent", "String", UserAgent(ctx)),
                 Field("time", "String",
                       Format(IF conf.utc THEN UTC(end0) ELSE end0, conf.timeFormat)),
                 Field("latency", "Duration", Sub(end0, f.start)) >>
              \o CustomFields(conf.customFields, ctx)) >>

(* Logger appending the latency before the time, as the README's sample shows *)
LoggerRecords_LatencyBeforeTime(r, f, ctx, end0) ==
    IF Len(ctx.Errors) > 0
    THEN ErrorRecords(r, ctx.Errors)
    ELSE << Record(r, "Logger", InfoLevel, f.path,
              << Field("status", "Int", ctx.status),
                 Field("method", "String", ctx.Method),
                 Field("path", "String", f.path),
                 Field("query", "String", f.query),
                 Field("ip", "String", ClientIP(ctx)),
                 Field("user-agent", "String", UserAgent(ctx)),
                 Field("latency", "Duration", Sub(end0, f.start)),
                 Field("time", "String",
                       Format(IF conf.utc THEN UTC(end0) ELSE end0, conf.timeFormat)) >>
              \o CustomFields(conf.customFields, ctx)) >>

(* Logger (the options constructor): after c.Next() *)
LoggerRecords(r, f, ctx, end0) ==
    LET latency == Sub(end0, f.start)
        end == IF conf.utc THEN UTC(end0) ELSE end0
    IN  IF Len(ctx.Errors) > 0
        THEN ErrorRecords(r, ctx.Errors)
        ELSE << Record(r, "Logger", InfoLevel, f.path,
                  << Field("status", "Int", ctx.status),
                     Field("method", "String", ctx.Method),
                     Field("path", "String", f.path),
                     Field("query", "String", f.query),
                     Field("ip", "String", ClientIP(ctx)),
                     Field("user-agent", "String", UserAgent(ctx)),
                     Field("time", "String", Format(end, conf.timeFormat)),
                     Field("latency", "Duration", latency) >>
                  \o CustomFields(conf.customFields, ctx)) >>

(* OnLevel writing the success record without asking logger.Check *)
OnLevelRecords_NoCheck(r, f, ctx, end0) ==
    IF Len(ctx.Errors) > 0
    THEN ErrorRecords(r, ctx.Errors)
    ELSE << Record(r, "Logger", conf.lvl, f.path,
              << Field("status", "Int", ctx.status),
                 Field("method", "String", ctx.Method),
                 Field("path", "String", f.path),
                 Field("ip", "String", ClientIP(ctx)),
                 Field("user-agent", "String", UserAgent(ctx)),
                 Field("time", "String",
                       Format(IF conf.utc THEN UTC(end0) ELSE end0, conf.timeFormat)),
                 Field("latency", "Duration", Sub(end0, f.start)) >>) >>

(* OnLevel: after c.Next() *)
OnLevelRecords(r, f, ctx, end0) ==
    LET latency == Sub(end0, f.start)
        end == IF conf.utc THEN UTC(end0) ELSE end0
    IN  IF Len(ctx.Errors) > 0
        THEN ErrorRecords(r, ctx.Errors)
        ELSE IF Check(conf.lvl)
        THEN << Record(r, "Logger", conf.lvl, f.path,
                  << Field("status", "Int", ctx.status),
                     Field("method", "String", ctx.Method),
                     Field("path", "String", f.path),
                     Field("ip", "String", ClientIP(ctx)),
                     Field("user-agent", "String", UserAgent(ctx)),
                     Field("time", "String", Format(end, conf.timeFormat)),
                     Field("latency", "Duration", latency) >>) >>
        ELSE <<>>

(* GinzapWithConfig: after c.Next() *)
GinzapWithConfigRecords(r, f, ctx, end0) ==
    LET latency == Sub(end0, f.start)
        end == IF conf.utc THEN UTC(end0) ELSE end0
    IN  IF f.skip THEN <<>>
        ELSE IF Len(ctx.Errors) > 0
        THEN IF conf.logErrorsOnce
             THEN << Record(r, "Logger", ErrorLevel, ErrorsOnceMessage(ctx.Errors, 1), <<>>) >>
             ELSE ErrorRecords(r, ctx.Errors)
        ELSE IF Check(conf.lvl)
        THEN << Record(r, "Logger", conf.lvl, f.path,
                  << Field("status", "Int", ctx.status),
                     Field("method", "String", ctx.Method),
                     Field("path", "String", f.path),
                     Field("query", "String", f.query),
                     Field("ip", "String", ClientIP(ctx)),
                     Field("user-agent", "String", UserAgent(ctx)),
                     Field("time", "String", Format(end, conf.timeFormat)),
                     Field("latency", "Duration", latency) >>
                  \o CustomFields(conf.customFields, ctx)
                  \o ContextFields(conf.context, ctx)) >>
        ELSE <<>>

AccessRecords(r, f, ctx, end0) ==
    IF conf.variant = "Logger" THEN LoggerRecords(r, f, ctx, end0)
    ELSE IF conf.variant = "OnLevel" THEN OnLevelRecords(r, f, ctx, end0)
    ELSE GinzapWithConfigRecords(r, f, ctx, end0)

(* What the closure keeps from before c.Next(): start, path, query (OnLevel
   keeps no query) and, for GinzapWithConfig, the skip decision *)
LoggerFrame(ctx) ==
    Frame("Logger", Time(now, "Local"), ctx.Path,
          IF conf.variant = "OnLevel" THEN "" ELSE ctx.RawQuery,
          conf.variant = "GinzapWithConfig" /\ ShouldSkip(conf, ctx))

----------------------------------------------------------------------------
(* Recovery *)

(* the classification without strings.ToLower *)
BrokenPipe_CaseSensitive(err) ==
    /\ err.type = "*net.OpError"
    /\ err.errType = "*os.SyscallError"
    /\ LET se == SyscallErrorText(err)
       IN  Contains(se, "broken pipe") \/ Contains(se, "connection reset by peer")

(* the classification of the recovered value *)
BrokenPipe(err) ==
    /\ err.type = "*net.OpError"
    /\ err.errType = "*os.SyscallError"
    /\ LET se == ToLower(SyscallErrorText(err))
       IN  Contains(se, "broken pipe") \/ Contains(se, "connection reset by peer")

(* httputil.DumpRequest(c.Request, body): the request line and the headers,
   and the body only when asked *)
DumpRequest(ctx, body) ==
    ctx.Method \o " " \o ctx.RequestURI \o " HTTP/1.1\r\nHost: example.com\r\n\r\n"
    \o (IF body THEN "<body>" ELSE "")

(* c.Abort() *)
Abort(ctx) == [ctx EXCEPT !.index = abortIndex]

(* c.AbortWithStatus(code): WriteHeader, WriteHeaderNow, Abort *)
AbortWithStatus(ctx, code) ==
    Abort([ctx EXCEPT !.status = IF code > 0 THEN code ELSE @, !.written = TRUE])

(* c.Error(err) *)
AddError(ctx, err) == [ctx EXCEPT !.Errors = Append(@, err)]

(* the records of the deferred function when it dumps the request with its body *)
RecoveryRecords_DumpBody(r, ctx, err, now0) ==
    LET httpRequest == DumpRequest(ctx, TRUE)
        nowT == IF rconf.utc THEN UTC(now0) ELSE now0
    IN  IF BrokenPipe(err)
        THEN << Record(r, "Recovery", ErrorLevel, ctx.Path,
                  << Field("error", "Any", err),
                     Field("request", "ByteString", httpRequest) >>) >>
        ELSE << Record(r, "Recovery", ErrorLevel, RecoveryMessage,
                  << Field("time", "String", Format(nowT, rconf.timeFormat)),
                     Field("error", "Any", err),
                     Field("request", "ByteString", httpRequest) >>
                  \o CustomFields(rconf.customFields, ctx)) >>

(* the records of the deferred function, for the recovered value err *)
RecoveryRecords(r, ctx, err, now0) ==
    LET httpRequest == DumpRequest(ctx, FALSE)
        nowT == IF rconf.utc THEN UTC(now0) ELSE now0
    IN  IF BrokenPipe(err)
        THEN << Record(r, "Recovery", ErrorLevel, ctx.Path,
                  << Field("error", "Any", err),
                     Field("request", "ByteString", httpRequest) >>) >>
        ELSE << Record(r, "Recovery", ErrorLevel, RecoveryMessage,
                  << Field("time", "String", Format(nowT, rconf.timeFormat)),
                     Field("error", "Any", err),
                     Field("request", "ByteString", httpRequest) >>
                  \o CustomFields(rconf.customFields, ctx)) >>

(* recover(): the panic stops and its value is returned *)
Recover(ctx) == [ctx EXCEPT !.panic = NoPanic]

(* the deferred function without the aborts: the status is set, the chain goes on *)
RecoveryContext_NoAbort(ctx, err) ==
    IF BrokenPipe(err)
    THEN AddError(Recover(ctx), err)
    ELSE [Recover(ctx) EXCEPT !.status = StatusInternalServerError, !.written = TRUE]

(* the deferred function writing the 500 response on a broken connection too *)
RecoveryContext_AlwaysStatus(ctx, err) ==
    IF BrokenPipe(err)
    THEN AbortWithStatus(AddError(Recover(ctx), err), StatusInternalServerError)
    ELSE AbortWithStatus(Recover(ctx), StatusInternalServerError)

(* the deferred function asserting err.(error) on every value: the assertion
   panics anew on a value that is no error *)
RecoveryContext_AssertError(ctx, err) ==
    IF err.type = "string"
    THEN ctx
    ELSE IF BrokenPipe(err)
    THEN Abort(AddError(Recover(ctx), err))
    ELSE AbortWithStatus(Recover(ctx), StatusInternalServerError)

(* the deferred function aborting on a broken connection without registering
   the error *)
RecoveryContext_NoRegister(ctx, err) ==
    IF BrokenPipe(err)
    THEN Abort(Recover(ctx))
    ELSE AbortWithStatus(Recover(ctx), StatusInternalServerError)

(* the context after the deferred function, for the recovered value err *)
RecoveryContext(ctx, err) ==
    IF BrokenPipe(err)
    THEN Abort(AddError(Recover(ctx), err))
    ELSE AbortWithStatus(Recover(ctx), StatusInternalServerError)

----------------------------------------------------------------------------
(* Actions *)

AtHandler(r, h) ==
    /\ Running(r)
    /\ ~Panicking(r)
    /\ Top(r).fn = "Next"
    /\ c[r].index < Len(handlers)
    /\ handlers[c[r].index + 1] = h

(* Engine.ServeHTTP: reset the context and run the chain from its start *)
Begin(r) ==
    /\ c[r].phase = "new"
    /\ \E rq \in { <<testPath, "a=1">>, <<noLogPath, "">> } :
        /\ c' = [c EXCEPT ![r] =
                   [NewContext EXCEPT !.phase = "running", !.Path = rq[1],
                                      !.RawQuery = rq[2],
                                      !.RequestURI = IF rq[2] = "" THEN rq[1]
                                                     ELSE rq[1] \o "?" \o rq[2],
                                      !.index = 0, !.stack = <<NextFrame>>]]
        /\ g' = [g EXCEPT ![r].path0 = rq[1], ![r].query0 = rq[2]]
    /\ UNCHANGED <<conf, rconf, coreLevel, handlers, reqs, logs, now>>

(* the access logger writing its records before it calls c.Next() *)
LoggerEnter_LogFirst(r) ==
    /\ AtHandler(r, "L")
    /\ LET f == LoggerFrame(c[r])
       IN  /\ c' = [c EXCEPT ![r].stack = @ \o <<f, NextFrame>>,
                             ![r].index = @ + 1]
           /\ g' = [g EXCEPT ![r].nextL = @ + 1, ![r].skipped = f.skip,
                             ![r].startL = now]
           /\ logs' = logs \o AccessRecords(r, f, c[r], Time(now, "Local"))
    /\ UNCHANGED <<conf, rconf, coreLevel, handlers, reqs, now>>

(* the access logger, up to and with its call of c.Next() *)
LoggerEnter(r) ==
    /\ AtHandler(r, "L")
    /\ LET f == LoggerFrame(c[r])
       IN  /\ c' = [c EXCEPT ![r].stack = @ \o <<f, NextFrame>>,
                             ![r].index = @ + 1]
           /\ g' = [g EXCEPT ![r].nextL = @ + 1, ![r].skipped = f.skip,
                             ![r].startL = now]
    /\ UNCHANGED <<conf, rconf, coreLevel, handlers, reqs, logs, now>>

(* the access logger deciding whether to skip after c.Next() returned, from
   the request as downstream left it *)
LoggerExit_SkipDecidedLate(r) ==
    /\ Running(r)
    /\ ~Panicking(r)
    /\ Top(r).fn = "Logger"
    /\ logs' = logs \o AccessRecords(r, [Top(r) EXCEPT !.skip = LoggerFrame(c[r]).skip],
                                     c[r], Time(now, "Local"))
    /\ c' = [c EXCEPT ![r].stack = Pop(@), ![r].index = @ + 1]
    /\ g' = [g EXCEPT ![r].exitL = TRUE, ![r].endL = now]
    /\ UNCHANGED <<conf, rconf, coreLevel, handlers, reqs, now>>

(* the access logger keeping start, path and query in variables of the
   constructor, shared by the calls: a call logs what any call in progress
   captured *)
LoggerExit_SharedCapture(r) ==
    /\ Running(r)
    /\ ~Panicking(r)
    /\ Top(r).fn = "Logger"
    /\ \E q \in reqs :
          \E i \in 1..Len(c[q].stack) :
              /\ c[q].stack[i].fn = "Logger"
              /\ logs' = logs \o AccessRecords(r, c[q].stack[i], c[r], Time(now, "Local"))
    /\ c' = [c EXCEPT ![r].stack = Pop(@), ![r].index = @ + 1]
    /\ g' = [g EXCEPT ![r].exitL = TRUE, ![r].endL = now]
    /\ UNCHANGED <<conf, rconf, coreLevel, handlers, reqs, now>>

(* the access logger after c.Next() returned; then the enclosing loop's c.index++ *)
LoggerExit(r) ==
    /\ Running(r)
    /\ ~Panicking(r)
    /\ Top(r).fn = "Logger"
    /\ logs' = logs \o AccessRecords(r, Top(r), c[r], Time(now, "Local"))
    /\ c' = [c EXCEPT ![r].stack = Pop(@), ![r].index = @ + 1]
    /\ g' = [g EXCEPT ![r].exitL = TRUE, ![r].endL = now]
    /\ UNCHANGED <<conf, rconf, coreLevel, handlers, reqs, now>>

(* Recovery, up to and with its call of c.Next() under the deferred function *)
RecoveryEnter(r) ==
    /\ AtHandler(r, "R")
    /\ c' = [c EXCEPT ![r].stack = @ \o <<Frame("Recovery", Time(0, "Local"), "", "", FALSE),
                                         NextFrame>>,
                      ![r].index = @ + 1]
    /\ g' = [g EXCEPT ![r].nextR = @ + 1]
    /\ UNCHANGED <<conf, rconf, coreLevel, handlers, reqs, logs, now>>

(* Recovery running the generic branch of its deferred function on a normal
   return as well, recover() being nil *)
RecoveryReturn_ActsOnNil(r) ==
    /\ Running(r)
    /\ ~Panicking(r)
    /\ Top(r).fn = "Recovery"
    /\ logs' = logs \o RecoveryRecords(r, c[r], NoPanic, Time(now, "Local"))
    /\ c' = [c EXCEPT ![r] =
               [AbortWithStatus(c[r], StatusInternalServerError) EXCEPT
                   !.stack = Pop(@), !.index = @ + 1]]
    /\ g' = [g EXCEPT ![r].exitR = TRUE]
    /\ UNCHANGED <<conf, rconf, coreLevel, handlers, reqs, now>>

(* Recovery after c.Next() returned: recover() is nil, the deferred function
   does nothing *)
RecoveryReturn(r) ==
    /\ Running(r)
    /\ ~Panicking(r)
    /\ Top(r).fn = "Recovery"
    /\ c' = [c EXCEPT ![r].stack = Pop(@), ![r].index = @ + 1]
    /\ g' = [g EXCEPT ![r].exitR = TRUE]
    /\ UNCHANGED <<conf, rconf, coreLevel, handlers, reqs, logs, now>>

(* Recovery's deferred function with a panic unwinding: recover() stops it *)
RecoveryCatch(r) ==
    /\ Running(r)
    /\ Panicking(r)
    /\ Top(r).fn = "Recovery"
    /\ logs' = logs \o RecoveryRecords(r, c[r], c[r].panic, Time(now, "Local"))
    /\ c' = [c EXCEPT ![r] =
               [RecoveryContext(c[r], c[r].panic) EXCEPT
                   !.stack = Pop(@), !.index = @ + 1]]
    /\ g' = [g EXCEPT ![r].caught = c[r].panic, ![r].ranAtCatch = g[r].ran,
                      ![r].snapR = Snapshot(c[r]), ![r].exitR = TRUE,
                      ![r].catchT = now]
    /\ UNCHANGED <<conf, rconf, coreLevel, handlers, reqs, now>>

(* a route handler: it may set the status and write, register errors, rewrite
   the request's URL, take time, and then abort the chain or panic; the sets
   are what the handlers of one specification choose from *)
HandlerRun(r, statuses, maxErrors, rewrites, panics, aborts, delays) ==
    /\ AtHandler(r, "H")
    /\ \E st \in statuses,
          errs \in ErrLists(maxErrors - Len(c[r].Errors)),
          np \in {""} \cup (IF rewrites
                            THEN {IF c[r].Path = testPath THEN noLogPath ELSE testPath}
                            ELSE {}),
          pv \in panics \cup {NoPanic},
          ab \in aborts,
          dt \in delays :
        /\ ab => pv = NoPanic
        /\ c' = [c EXCEPT ![r].status = IF st > 0 THEN st ELSE @,
                          ![r].written = IF st > 0 THEN TRUE ELSE @,
                          ![r].Errors = @ \o errs,
                          ![r].Path = IF np # "" THEN np ELSE @,
                          ![r].RawQuery = IF np # "" THEN "evil=1" ELSE @,
                          ![r].panic = pv,
                          ![r].index = (IF ab THEN abortIndex ELSE @)
                                       + (IF pv = NoPanic THEN 1 ELSE 0)]
        /\ now' = now + dt
    /\ g' = [g EXCEPT ![r].ran = @ + 1, ![r].thrown = c'[r].panic]
    /\ UNCHANGED <<conf, rconf, coreLevel, handlers, reqs, logs>>

Handler(r) ==
    HandlerRun(r, {0, StatusNoContent}, MaxErrors, TRUE, PanicValues, BOOLEAN, 0..MaxDelay)

(* c.Next(): the loop ends when the index passes the chain *)
NextReturn(r) ==
    /\ Running(r)
    /\ ~Panicking(r)
    /\ Top(r).fn = "Next"
    /\ c[r].index >= Len(handlers)
    /\ c' = [c EXCEPT ![r].stack = Pop(@),
                      ![r].phase = IF Len(c[r].stack) = 1 THEN "done" ELSE @]
    /\ g' = IF Len(c[r].stack) = 1 THEN g
            ELSE IF c[r].stack[Len(c[r].stack) - 1].fn = "Logger"
            THEN [g EXCEPT ![r].retL = TRUE, ![r].snapL = Snapshot(c[r])]
            ELSE [g EXCEPT ![r].retR = TRUE, ![r].snapR = Snapshot(c[r])]
    /\ UNCHANGED <<conf, rconf, coreLevel, handlers, reqs, logs, now>>

(* the access logger writing its records from a deferred function, so also
   while a panic unwinds its frame *)
Unwind_LoggerDefers(r) ==
    /\ Running(r)
    /\ Panicking(r)
    /\ Top(r).fn # "Recovery"
    /\ c' = [c EXCEPT ![r].stack = Pop(@),
                      ![r].phase = IF Len(c[r].stack) = 1 THEN "crashed" ELSE @]
    /\ logs' = IF Top(r).fn = "Logger"
               THEN logs \o AccessRecords(r, Top(r), c[r], Time(now, "Local"))
               ELSE logs
    /\ g' = IF Top(r).fn = "Logger" THEN [g EXCEPT ![r].passedL = c[r].panic] ELSE g
    /\ UNCHANGED <<conf, rconf, coreLevel, handlers, reqs, now>>

(* a panic leaves a frame that does not recover: a Next loop, or the access
   logger, which has no deferred function; past the last frame it leaves the
   chain *)
Unwind(r) ==
    /\ Running(r)
    /\ Panicking(r)
    /\ Top(r).fn # "Recovery"
    /\ c' = [c EXCEPT ![r].stack = Pop(@),
                      ![r].phase = IF Len(c[r].stack) = 1 THEN "crashed" ELSE @]
    /\ g' = IF Top(r).fn = "Logger" THEN [g EXCEPT ![r].passedL = c[r].panic] ELSE g
    /\ UNCHANGED <<conf, rconf, coreLevel, handlers, reqs, logs, now>>

Next ==
    \E r \in reqs :
        \/ Begin(r)
        \/ LoggerEnter(r)
        \/ LoggerExit(r)
        \/ RecoveryEnter(r)
        \/ RecoveryReturn(r)
        \/ RecoveryCatch(r)
        \/ Handler(r)
        \/ NextReturn(r)
        \/ Unwind(r)

Spec == Init /\ [][Next]_vars

----------------------------------------------------------------------------
(* Concurrent requests: gin serves each request on its own goroutine with its
   own Context; the middlewares' closures keep start, path and query in locals
   of the call, read the Config and call the logger, which serialises the
   writes of concurrent callers. A step of one request therefore touches its
   own context and appends to the log, and the steps of two requests
   interleave in any order. *)

ConcurrentRequests == {1, 2}

(* the handlers of the concurrent runs: a status, at most one error, a string
   panic, and up to MaxDelayConcurrent ticks *)
ConcurrentPanics ==
    { [type |-> "string", syscall |-> "", errType |-> "", text |-> "boom"] }

HandlerConcurrent(r) ==
    HandlerRun(r, {0, StatusNoContent}, 1, FALSE, ConcurrentPanics, {FALSE},
               0..MaxDelayConcurrent)

InitConcurrent ==
    /\ handlers = <<"R", "L", "H">>
    /\ conf \in { [BaseConf EXCEPT !.utc = TRUE, !.customFields = <<"cf_path", "cf_errors">>] }
    /\ rconf = RecoveryConf(TRUE, TRUE, <<"cf_path">>)
    /\ coreLevel = InfoLevel
    /\ reqs = ConcurrentRequests
    /\ c = [r \in reqs |-> NewContext]
    /\ g = [r \in reqs |-> NewHistory]
    /\ logs = <<>>
    /\ now = 0

NextConcurrent ==
    \E r \in reqs :
        \/ Begin(r)
        \/ LoggerEnter(r)
        \/ LoggerExit(r)
        \/ RecoveryEnter(r)
        \/ RecoveryReturn(r)
        \/ RecoveryCatch(r)
        \/ HandlerConcurrent(r)
        \/ NextReturn(r)
        \/ Unwind(r)

SpecConcurrent == InitConcurrent /\ [][NextConcurrent]_vars

----------------------------------------------------------------------------
(* Properties *)

(* the records one middleware wrote for request r, in order *)
RecordsOf(r, by) == SelectSeq(logs, LAMBDA x : x.req = r /\ x.by = by)

HasField(rec, key) == \E i \in 1..Len(rec.fields) : rec.fields[i].key = key
FieldValues(rec, key) ==
    { rec.fields[i].val : i \in { j \in 1..Len(rec.fields) : rec.fields[j].key = key } }

(* the access logger ran to its end for r, on a request it does not skip, and
   downstream had left n errors when its Next call returned *)
LoggedWithErrors(r, n) ==
    /\ g[r].exitL
    /\ ~g[r].skipped
    /\ Len(g[r].snapL.Errors) = n

(* C1, as stated: for every non-skipped request whose downstream returns with
   an empty error list, the access logger emits exactly one record, at the
   default level, and no Error-level record. *)
C1_ExactlyOneAtDefaultLevel ==
    \A r \in reqs :
        LoggedWithErrors(r, 0) =>
            /\ Len(RecordsOf(r, "Logger")) = 1
            /\ RecordsOf(r, "Logger")[1].level = conf.lvl

(* C1, amended: for every non-skipped request whose downstream returns with an
   empty error list, the access logger emits no Error-level record and at most
   one record, at the default level: exactly one, except that OnLevel, which
   asks the logger's level check first, emits none when the logger has the
   default level disabled. *)
C1_OneAtDefaultLevelIfEnabled ==
    \A r \in reqs :
        LoggedWithErrors(r, 0) =>
            LET recs == RecordsOf(r, "Logger")
            IN  /\ \A i \in 1..Len(recs) : recs[i].level = conf.lvl /\ conf.lvl # ErrorLevel
                /\ IF conf.variant = "OnLevel" /\ conf.lvl < coreLevel
                   THEN Len(recs) = 0
                   ELSE Len(recs) = 1

(* C1 witness: OnLevel at a disabled level finished a request without a record,
   after a route handler ran. *)
C1_Witness ==
    \E r \in reqs :
        /\ LoggedWithErrors(r, 0)
        /\ conf.variant = "OnLevel"
        /\ conf.lvl < coreLevel
        /\ g[r].ran = 1
        /\ RecordsOf(r, "Logger") = <<>>

(* the inbound path of r matches a skip rule of the configuration *)
MatchesSkipRule(r) ==
    /\ conf.variant = "GinzapWithConfig"
    /\ \/ (conf.skipper = "path_is_no_log" /\ g[r].path0 = "/no_log")
       \/ g[r].path0 \in conf.skipPaths
       \/ (conf.skipPathRegexps # <<>> /\ g[r].path0 = "/no_log")

(* C2: a request for which the skipper returns true, or whose path is in
   skip_paths, or matches a pattern of skip_path_regexps, gets no record from
   the access logger, whatever downstream does. *)
C2_SkippedNoRecords ==
    \A r \in reqs :
        MatchesSkipRule(r) => RecordsOf(r, "Logger") = <<>>

(* C2 witness: the access logger finished a request that matches a skip rule
   and on which downstream registered errors. *)
C2_Witness ==
    \E r \in reqs :
        /\ MatchesSkipRule(r)
        /\ g[r].exitL
        /\ Len(g[r].snapL.Errors) = 2
        /\ c[r].phase = "done"

(* Recovery caught a panic of r that it classifies as generic / broken pipe *)
CaughtGeneric(r) == g[r].caught # NoPanic /\ ~BrokenPipe(g[r].caught)
CaughtBrokenPipe(r) == g[r].caught # NoPanic /\ BrokenPipe(g[r].caught)

(* C3: after a panic not classified as a broken connection, Recovery has
   written exactly one record, at Error level with the message
   "[Recovery from panic]"; the response status is 500 and the request is
   aborted: no route handler runs after the panic. *)
C3_GenericPanic ==
    \A r \in reqs :
        CaughtGeneric(r) =>
            LET recs == RecordsOf(r, "Recovery")
            IN  /\ Len(recs) = 1
                /\ recs[1].level = ErrorLevel
                /\ recs[1].msg = "[Recovery from panic]"
                /\ c[r].status = 500
                /\ IsAborted(c[r])
                /\ g[r].ran = g[r].ranAtCatch

(* C3 witness: the first of two route handlers panicked with "boom" and the
   request ended. *)
C3_Witness ==
    \E r \in reqs :
        /\ CaughtGeneric(r)
        /\ g[r].caught.text = "boom"
        /\ handlers = <<"R", "H", "H">>
        /\ g[r].ranAtCatch = 1
        /\ c[r].phase = "done"

(* the context of r is, but for the abort, as it was when the panic reached
   Recovery, with the errors errs added *)
LeftAsAtPanic(r, errs) ==
    /\ c[r].status = g[r].snapR.status
    /\ c[r].written = g[r].snapR.written
    /\ c[r].Errors = g[r].snapR.Errors \o errs
    /\ IsAborted(c[r])
    /\ g[r].ran = g[r].ranAtCatch

(* Recovery wrote exactly one record for r, at Error level, whose message is
   the request path at the time of the panic *)
OneBrokenPipeRecord(r) ==
    LET recs == RecordsOf(r, "Recovery")
    IN  /\ Len(recs) = 1
        /\ recs[1].level = ErrorLevel
        /\ recs[1].msg = g[r].snapR.Path

(* C4, as stated: after a panic classified as a broken connection, Recovery
   has written exactly one Error record whose message is the request path, has
   registered the panic value as a request error and aborted, and the response
   is unwritten, its status at the framework's default. *)
C4_BrokenPipeStatusDefault ==
    \A r \in reqs :
        CaughtBrokenPipe(r) =>
            /\ OneBrokenPipeRecord(r)
            /\ LeftAsAtPanic(r, <<g[r].caught>>)
            /\ c[r].status = defaultStatus
            /\ ~c[r].written

(* C4, amended: after a panic classified as a broken connection, Recovery has
   written exactly one Error record whose message is the request path, has
   registered the panic value as a request error and aborted, and has left the
   response status and whether the response is written as downstream left
   them (the framework's unwritten default when downstream set none). *)
C4_BrokenPipeStatusUntouched ==
    \A r \in reqs :
        CaughtBrokenPipe(r) =>
            /\ OneBrokenPipeRecord(r)
            /\ LeftAsAtPanic(r, <<g[r].caught>>)
            /\ (g[r].snapR.status = defaultStatus /\ ~g[r].snapR.written
                    => c[r].status = defaultStatus /\ ~c[r].written)

(* C4 witness: a handler set status 204 and then panicked with a write error
   "broken pipe"; the request ended with status 204. *)
C4_Witness ==
    \E r \in reqs :
        /\ CaughtBrokenPipe(r)
        /\ g[r].caught.text = "broken pipe"
        /\ c[r].status = 204
        /\ c[r].phase = "done"

(* C5: no panic escapes Recovery: while a panic unwinds, Recovery's frame is
   still on the stack; once Recovery has returned, no panic is unwinding and
   the request never ends by a panic leaving the chain. *)
C5_NoPanicEscapes ==
    \A r \in reqs :
        (\E i \in 1..Len(handlers) : handlers[i] = "R") =>
            /\ c[r].phase # "crashed"
            /\ Panicking(r) =>
                   \E i \in 1..Len(c[r].stack) : c[r].stack[i].fn = "Recovery"
            /\ g[r].exitR => ~Panicking(r)

(* C5 witness: Recovery, built with stack capture and a custom field, caught a
   panic with a string value and the request ended normally. *)
C5_Witness ==
    \E r \in reqs :
        /\ g[r].caught.type = "string"
        /\ rconf.stack
        /\ Len(rconf.customFields) = 2
        /\ c[r].phase = "done"

(* the text of a registered error: the handler's errors.New text, or the
   network error Recovery registered *)
TextOf(e) ==
    IF e.type = "error" THEN e.text
    ELSE "write tcp: " \o e.syscall \o ": " \o e.text

(* C6: for a non-skipped request whose downstream returns with N >= 1 errors,
   without log_errors_once, the access logger emits exactly N records, all at
   Error level and without fields, the i-th with the text of the i-th error as
   its message; no record at the default level. *)
C6_OneRecordPerError ==
    \A r \in reqs :
        \A n \in 1..(MaxErrors + 1) :
            LoggedWithErrors(r, n) /\ ~conf.logErrorsOnce =>
                LET recs == RecordsOf(r, "Logger")
                    errs == g[r].snapL.Errors
                IN  /\ Len(recs) = n
                    /\ \A i \in 1..n :
                        /\ recs[i].level = ErrorLevel
                        /\ recs[i].fields = <<>>
                        /\ recs[i].msg = TextOf(errs[i])

(* C6 witness: two errors, error1 then error2, were logged in that order by
   the Logger of the options constructor. *)
C6_Witness ==
    \E r \in reqs :
        /\ LoggedWithErrors(r, 2)
        /\ conf.variant = "Logger"
        /\ Len(RecordsOf(r, "Logger")) = 2
        /\ RecordsOf(r, "Logger")[1].msg = "error1"
        /\ RecordsOf(r, "Logger")[2].msg = "error2"

(* the two-digit indices of the message of log_errors_once *)
C7_Index == <<"01", "02", "03", "04", "05">>

(* the expected message: "Error #<index>: <text>\n" per error, built from the
   last error backwards *)
RECURSIVE C7_Message(_, _)
C7_Message(texts, n) ==
    IF n = 0 THEN ""
    ELSE C7_Message(texts, n - 1) \o "Error #" \o C7_Index[n] \o ": " \o texts[n] \o "\n"

(* C7: for a non-skipped request whose downstream returns with N >= 1 errors,
   with log_errors_once, the access logger emits exactly one record, at Error
   level and without fields, whose message is the concatenation in order of
   "Error #<2-digit index from 01>: <error text>\n". *)
C7_ErrorsOnce ==
    \A r \in reqs :
        \A n \in 1..(MaxErrors + 1) :
            LoggedWithErrors(r, n) /\ conf.logErrorsOnce =>
                LET recs == RecordsOf(r, "Logger")
                    errs == g[r].snapL.Errors
                    texts == [i \in 1..n |-> TextOf(errs[i])]
                IN  /\ Len(recs) = 1
                    /\ recs[1].level = ErrorLevel
                    /\ recs[1].fields = <<>>
                    /\ recs[1].msg = C7_Message(texts, n)

(* C7 witness: error1 and error2 gave the one message of the test. *)
C7_Witness ==
    \E r \in reqs :
        /\ LoggedWithErrors(r, 2)
        /\ conf.logErrorsOnce
        /\ RecordsOf(r, "Logger")[1].msg = "Error #01: error1\nError #02: error2\n"

(* every error on r's error list is in the message of an Error-level record
   of the access logger *)
AllErrorsLogged(r) ==
    \A i \in 1..Len(c[r].Errors) :
        \E k \in 1..Len(logs) :
            /\ logs[k].req = r
            /\ logs[k].by = "Logger"
            /\ logs[k].level = ErrorLevel
            /\ Contains(logs[k].msg, c[r].Errors[i].text)

HasLogger == \E i \in 1..Len(handlers) : handlers[i] = "L"

(* C8, as stated: for every request and configuration, when the request is
   over each error registered on it is in the message of an Error-level record
   of the access logger. *)
C8_NoErrorDropped ==
    \A r \in reqs :
        HasLogger /\ c[r].phase \in {"done", "crashed"} => AllErrorsLogged(r)

(* C8, amended: for every non-skipped request whose downstream chain returns
   to the access logger without panicking, each error registered on the
   request is in the message of an Error-level record of the access logger,
   and the access logger neither panics nor aborts the request. *)
C8_ErrorsLoggedUnlessSkippedOrPanic ==
    \A r \in reqs :
        g[r].exitL =>
            /\ ~g[r].skipped => AllErrorsLogged(r)
            /\ c[r].Errors = g[r].snapL.Errors
            /\ ~Panicking(r)
            /\ IsAborted(c[r]) <=> g[r].snapL.aborted

(* C8 witness: with log_errors_once two errors were logged in one record, on a
   request that no rule skips. *)
C8_Witness ==
    \E r \in reqs :
        /\ LoggedWithErrors(r, 2)
        /\ conf.logErrorsOnce
        /\ Len(RecordsOf(r, "Logger")) = 1
        /\ AllErrorsLogged(r)

(* the success records of the access logger: those not at Error level *)
SuccessRecords(r) ==
    SelectSeq(logs, LAMBDA x : x.req = r /\ x.by = "Logger" /\ x.level # ErrorLevel)

(* C9: the message, the "path" field and the "query" field of the success
   record are the request's path and raw query as they were when the access
   logger was entered, also when downstream rewrote them. *)
C9_CapturedBeforeNext ==
    \A r \in reqs :
        \A i \in 1..Len(SuccessRecords(r)) :
            LET rec == SuccessRecords(r)[i]
            IN  /\ rec.msg = g[r].path0
                /\ FieldValues(rec, "path") = {g[r].path0}
                /\ FieldValues(rec, "query") \subseteq {g[r].query0}
                /\ conf.variant # "OnLevel" => HasField(rec, "query")

(* C9 witness: downstream rewrote /test?a=1 to /no_log?evil=1 and the success
   record still carries /test and a=1. *)
C9_Witness ==
    \E r \in reqs :
        /\ Len(SuccessRecords(r)) = 1
        /\ g[r].snapL.Path = "/no_log"
        /\ g[r].snapL.RawQuery = "evil=1"
        /\ SuccessRecords(r)[1].msg = "/test"
        /\ FieldValues(SuccessRecords(r)[1], "query") = {"a=1"}

(* C10: each middleware calls the downstream chain exactly once per request:
   it has called Next once when it returns, also for a request that a rule
   skips, whose route handler ran and whose status is the one downstream set;
   and the access logger writes only after its Next call returned. *)
C10_NextOnceLogAfter ==
    \A r \in reqs :
        /\ g[r].nextL <= 1
        /\ g[r].nextR <= 1
        /\ g[r].exitL => g[r].nextL = 1 /\ g[r].retL
        /\ g[r].exitR => g[r].nextR = 1
        /\ RecordsOf(r, "Logger") # <<>> => g[r].retL /\ g[r].exitL
        /\ g[r].skipped /\ g[r].exitL =>
               /\ g[r].ran >= 1
               /\ c[r].status = g[r].snapL.status

(* C10 witness: a skipped request ended with the status 204 its handler set. *)
C10_Witness ==
    \E r \in reqs :
        /\ g[r].skipped
        /\ c[r].phase = "done"
        /\ g[r].ran = 1
        /\ c[r].status = 204
        /\ g[r].nextL = 1

(* the keys and types of a record's fields, in order *)
Shape(rec) == [i \in 1..Len(rec.fields) |-> <<rec.fields[i].key, rec.fields[i].type>>]

(* the fixed fields of the success record as the specification lists them *)
FixedShape ==
    << <<"status", "Int">>, <<"method", "String">>, <<"path", "String">>,
       <<"query", "String">>, <<"ip", "String">>, <<"user-agent", "String">>,
       <<"time", "String">>, <<"latency", "Duration">> >>

(* the same without the query field *)
FixedShapeNoQuery ==
    SelectSeq(FixedShape, LAMBDA x : x[1] # "query")

(* one field per configured custom field function, in declaration order, then
   the two fields of the context function if it is set *)
CustomShape ==
    [i \in 1..Len(conf.customFields) |->
        IF conf.customFields[i] = "cf_path" THEN <<"cf_path", "String">>
        ELSE <<"cf_errors", "Int">>]
    \o (IF conf.context = "none" THEN <<>>
        ELSE << <<"request_id", "String">>, <<"ctx_query", "String">> >>)

(* the custom fields of rec hold what one call of each function returns on the
   request as downstream left it: the live path, the count of errors, the
   live query *)
CustomValuesFromContext(r, rec) ==
    /\ FieldValues(rec, "cf_path") \subseteq {g[r].snapL.Path}
    /\ FieldValues(rec, "cf_errors") \subseteq {Len(g[r].snapL.Errors)}
    /\ FieldValues(rec, "ctx_query") \subseteq {g[r].snapL.RawQuery}
    /\ FieldValues(rec, "status") = {g[r].snapL.status}
    /\ FieldValues(rec, "method") = {"GET"}

(* C11, as stated: every success record of the access logger carries, in this
   order, status (integer), method, path, query, client IP, user-agent,
   formatted end timestamp, latency (duration), then one field per custom
   field function in declaration order, then the fields of the context
   function if it is set. *)
C11_FixedFieldOrder ==
    \A r \in reqs :
        \A i \in 1..Len(SuccessRecords(r)) :
            LET rec == SuccessRecords(r)[i]
            IN  /\ Shape(rec) = FixedShape \o CustomShape
                /\ CustomValuesFromContext(r, rec)

(* C11, amended: every success record of the access logger carries, in this
   order, status (integer), method, path, query, client IP, user-agent,
   formatted end timestamp, latency (duration), then one field per custom
   field function in declaration order, then the fields of the context
   function if it is set; the record of OnLevel (and so of the Ginzap built on
   it) carries the same fixed fields in the same order but no query field. *)
C11_FixedFieldOrderQueryUnlessOnLevel ==
    \A r \in reqs :
        \A i \in 1..Len(SuccessRecords(r)) :
            LET rec == SuccessRecords(r)[i]
            IN  /\ Shape(rec) =
                       (IF conf.variant = "OnLevel" THEN FixedShapeNoQuery ELSE FixedShape)
                       \o CustomShape
                /\ CustomValuesFromContext(r, rec)

(* C11 witness: Logger, built with two custom field functions, logged a
   request whose path downstream rewrote: ten fields, the ninth holding the
   rewritten path. *)
C11_Witness ==
    \E r \in reqs :
        /\ conf.variant = "Logger"
        /\ Len(SuccessRecords(r)) = 1
        /\ Len(SuccessRecords(r)[1].fields) = 10
        /\ SuccessRecords(r)[1].fields[9] = Field("cf_path", "String", "/no_log")
        /\ SuccessRecords(r)[1].fields[3] = Field("path", "String", "/test")

(* the two-digit seconds of the clock values the model reaches *)
C12_Seconds == <<"00", "01", "02", "03", "04", "05", "06", "07", "08", "09">>

(* the RFC3339 rendering of instant t: in UTC the zone is Z, in the local zone
   the wall clock is one hour ahead and the zone is +01:00 *)
C12_Stamp(t, utc) ==
    IF utc THEN "1970-01-01T00:00:" \o C12_Seconds[t + 1] \o "Z"
    ELSE "1970-01-01T01:00:" \o C12_Seconds[t + 1] \o "+01:00"

(* the records of Recovery's generic branch *)
GenericRecords(r) ==
    SelectSeq(logs, LAMBDA x : x.req = r /\ x.by = "Recovery" /\ x.msg = RecoveryMessage)

(* C12: the timestamp of the access logger's success record is the end instant
   rendered in UTC when utc is set and in the local zone when it is not, and
   its latency is the end instant minus the start instant whatever utc is; the
   timestamp of Recovery's generic-panic record is the instant of the catch,
   rendered by the same rule with Recovery's own utc. *)
C12_ZoneAndLatency ==
    \A r \in reqs :
        /\ \A i \in 1..Len(SuccessRecords(r)) :
              LET rec == SuccessRecords(r)[i]
              IN  /\ FieldValues(rec, "time") = {C12_Stamp(g[r].endL, conf.utc)}
                  /\ FieldValues(rec, "latency") = {g[r].endL - g[r].startL}
                  /\ g[r].endL >= g[r].startL
        /\ \A i \in 1..Len(GenericRecords(r)) :
              FieldValues(GenericRecords(r)[i], "time") = {C12_Stamp(g[r].catchT, rconf.utc)}

(* C12 witness: with utc set, a request that took one tick was logged at
   instant 1 with the timestamp in zone Z and the latency 1. *)
C12_Witness ==
    \E r \in reqs :
        /\ conf.utc
        /\ conf.variant = "Logger"
        /\ Len(SuccessRecords(r)) = 1
        /\ FieldValues(SuccessRecords(r)[1], "time") = {"1970-01-01T00:00:01Z"}
        /\ FieldValues(SuccessRecords(r)[1], "latency") = {1}

(* C13, as stated (positions counted from zero, sequences from one): in every
   success record of the access logger the field at position 2 is the string
   field holding the request path, and the field at position 7 is a string
   field holding the formatted end timestamp, in UTC when utc is set. *)
C13_PathAt2TimeAt7 ==
    \A r \in reqs :
        \A i \in 1..Len(SuccessRecords(r)) :
            LET rec == SuccessRecords(r)[i]
            IN  /\ Len(rec.fields) >= 8
                /\ rec.fields[3] = Field("path", "String", g[r].path0)
                /\ rec.fields[8].type = "String"
                /\ rec.fields[8].val = C12_Stamp(g[r].endL, conf.utc)

(* C14: the access logger decides whether to skip from the request as it is
   when the logger is entered, before downstream runs: when the logger has
   finished, it has written nothing if the inbound path matched a skip rule
   and it has written its records if the inbound path matched none, whatever
   path and query downstream left on the request. *)
C14_SkipDecidedAtEntry ==
    \A r \in reqs :
        g[r].exitL =>
            /\ g[r].skipped <=> MatchesSkipRule(r)
            /\ MatchesSkipRule(r) => RecordsOf(r, "Logger") = <<>>
            /\ ~MatchesSkipRule(r) /\ conf.variant = "GinzapWithConfig" =>
                   RecordsOf(r, "Logger") # <<>>

(* C14 witness: with the skipper that skips /no_log, a request for /test that
   downstream rewrote to /no_log was logged. *)
C14_Witness ==
    \E r \in reqs :
        /\ conf.skipper = "path_is_no_log"
        /\ g[r].path0 = "/test"
        /\ g[r].exitL
        /\ g[r].snapL.Path = "/no_log"
        /\ c[r].Path = "/no_log"
        /\ Len(RecordsOf(r, "Logger")) = 1

(* every record written for request r, by either middleware *)
AllRecordsOf(r) == SelectSeq(logs, LAMBDA x : x.req = r)

(* the access logger stands between the route handler and whatever is outside *)
LoggerAroundHandler == handlers \in { <<"L", "H">>, <<"R", "L", "H">> }

(* C15: the access logger never catches a panic: a panic of the downstream
   chain leaves the access logger's frame with the value it was raised with,
   and the access logger writes no record for that request; with Recovery
   outside the access logger the request then ends with exactly one record,
   the one of Recovery, which caught that same value. *)
C15_LoggerPassesPanic ==
    \A r \in reqs :
        /\ g[r].passedL # NoPanic =>
               /\ g[r].passedL = g[r].thrown
               /\ RecordsOf(r, "Logger") = <<>>
               /\ ~g[r].exitL
        /\ LoggerAroundHandler /\ g[r].thrown # NoPanic /\ c[r].phase \in {"done", "crashed"} =>
               /\ g[r].passedL = g[r].thrown
               /\ RecordsOf(r, "Logger") = <<>>
        /\ handlers = <<"L", "H">> /\ c[r].phase = "crashed" => c[r].panic = g[r].thrown
        /\ handlers = <<"R", "L", "H">> /\ g[r].thrown # NoPanic /\ c[r].phase = "done" =>
               /\ g[r].caught = g[r].thrown
               /\ Len(AllRecordsOf(r)) = 1
               /\ AllRecordsOf(r)[1].by = "Recovery"

(* C15 witness: with Recovery outside the access logger, a handler registered
   an error and panicked with "boom"; the request ended with the one record of
   Recovery. *)
C15_Witness ==
    \E r \in reqs :
        /\ handlers = <<"R", "L", "H">>
        /\ g[r].thrown.text = "boom"
        /\ g[r].passedL = g[r].thrown
        /\ Len(c[r].Errors) = 1
        /\ c[r].phase = "done"
        /\ Len(AllRecordsOf(r)) = 1

(* the panic values that are a network operation error wrapping a system-call
   error whose text, lowercased, contains "broken pipe" or "connection reset
   by peer", listed by hand *)
C16_BrokenConnections ==
    { [type |-> "*net.OpError", syscall |-> "write", errType |-> "*os.SyscallError",
       text |-> "broken pipe"],
      [type |-> "*net.OpError", syscall |-> "read", errType |-> "*os.SyscallError",
       text |-> "Connection Reset By Peer"] }

(* C16: Recovery takes the broken-connection branch (one record whose message
   is the request path, the panic value registered as an error, the status
   left alone) if and only if the panic value is a network operation error
   wrapping a system-call error whose lowercased text contains "broken pipe"
   or "connection reset by peer"; for every other value, a string, a plain
   error with those words and a network error wrapping another error among
   them, it takes the generic branch and the status is 500. *)
C16_Classification ==
    \A r \in reqs :
        g[r].caught # NoPanic =>
            LET recs == RecordsOf(r, "Recovery")
            IN  /\ Len(recs) = 1
                /\ IF g[r].caught \in C16_BrokenConnections
                   THEN /\ recs[1].msg = g[r].snapR.Path
                        /\ c[r].Errors = g[r].snapR.Errors \o <<g[r].caught>>
                        /\ c[r].status = g[r].snapR.status
                   ELSE /\ recs[1].msg = "[Recovery from panic]"
                        /\ c[r].Errors = g[r].snapR.Errors
                        /\ c[r].status = 500

(* C16 witness: a network error wrapping a plain error "broken pipe" took the
   generic branch. *)
C16_Witness ==
    \E r \in reqs :
        /\ g[r].caught.type = "*net.OpError"
        /\ g[r].caught.errType = "*errors.errorString"
        /\ g[r].caught.text = "broken pipe"
        /\ c[r].status = 500
        /\ c[r].phase = "done"

(* the custom field functions Recovery was configured with, without the stack
   function its constructor adds *)
C17_Declared ==
    IF rconf.stack THEN Pop(rconf.customFields) ELSE rconf.customFields

C17_KeyType(name) ==
    IF name = "cf_path" THEN <<"cf_path", "String">> ELSE <<"cf_errors", "Int">>

(* a dump of the request line and the headers that ends with the blank line
   after the headers: no body follows *)
C17_HeadersOnly(dump) ==
    /\ SubSeq(dump, 1, 4) = "GET "
    /\ SubSeq(dump, Len(dump) - 20, Len(dump)) = "Host: example.com\r\n\r\n"

(* C17: the generic-panic record of Recovery has the fields time, error,
   request, in that order, then the configured custom fields in declaration
   order, and a stack field if and only if Recovery was built with stack
   capture; the broken-connection record has exactly the fields error and
   request. In both, error is the panic value and request the dumped request
   line and headers without the body. *)
C17_RecoveryFields ==
    \A r \in reqs :
        \A i \in 1..Len(RecordsOf(r, "Recovery")) :
            LET rec == RecordsOf(r, "Recovery")[i]
            IN  /\ FieldValues(rec, "error") = {g[r].caught}
                /\ \A d \in FieldValues(rec, "request") : C17_HeadersOnly(d)
                /\ IF rec.msg = RecoveryMessage
                   THEN /\ Shape(rec) =
                              << <<"time", "String">>, <<"error", "Any">>,
                                 <<"request", "ByteString">> >>
                              \o [k \in 1..Len(C17_Declared) |-> C17_KeyType(C17_Declared[k])]
                              \o (IF rconf.stack THEN << <<"stack", "ByteString">> >> ELSE <<>>)
                        /\ HasField(rec, "stack") <=> rconf.stack
                        /\ FieldValues(rec, "cf_path") \subseteq {g[r].snapR.Path}
                   ELSE /\ CaughtBrokenPipe(r)
                        /\ Shape(rec) = << <<"error", "Any">>, <<"request", "ByteString">> >>

(* C17 witness: Recovery, built with stack capture and one custom field, wrote
   a generic record of five fields ending with the stack. *)
C17_Witness ==
    \E r \in reqs :
        /\ rconf.stack
        /\ Len(GenericRecords(r)) = 1
        /\ Len(GenericRecords(r)[1].fields) = 5
        /\ GenericRecords(r)[1].fields[4].key = "cf_path"
        /\ GenericRecords(r)[1].fields[5].key = "stack"

(* the state of Recovery for request r: IDLE before the middleware is entered,
   RUNNING while downstream runs under its deferred function, PANICKED while a
   panic unwinds towards it, RESPONDED once the deferred function has handled
   the panic, COMPLETED once it returned without one *)
RecoveryState(r) ==
    IF g[r].nextR = 0 THEN "IDLE"
    ELSE IF g[r].exitR THEN (IF g[r].caught # NoPanic THEN "RESPONDED" ELSE "COMPLETED")
    ELSE IF Panicking(r) THEN "PANICKED"
    ELSE "RUNNING"

C18_Transitions ==
    { <<"IDLE", "RUNNING">>, <<"RUNNING", "COMPLETED">>,
      <<"RUNNING", "PANICKED">>, <<"PANICKED", "RESPONDED">> }

(* Recovery has done nothing to r: no record, and the status, the written
   flag, the error list and the abort state are as downstream left them *)
C18_NoAction(r) ==
    /\ RecordsOf(r, "Recovery") = <<>>
    /\ c[r].status = g[r].snapR.status
    /\ c[r].written = g[r].snapR.written
    /\ c[r].Errors = g[r].snapR.Errors
    /\ IsAborted(c[r]) = g[r].snapR.aborted

(* C18: per request Recovery moves only RUNNING -> COMPLETED or RUNNING ->
   PANICKED -> RESPONDED (after being entered once), a request that is over is
   in exactly one of the terminal states COMPLETED and RESPONDED, which it
   never leaves, and in COMPLETED Recovery has done nothing: no record, and
   status, error list and abort state as downstream left them. *)
C18_StateMachine ==
    /\ [](\A r \in reqs :
            /\ c[r].phase \in {"done", "crashed"} /\ g[r].nextR > 0 =>
                   RecoveryState(r) \in {"COMPLETED", "RESPONDED"}
            /\ RecoveryState(r) = "COMPLETED" => C18_NoAction(r) /\ g[r].retR
            /\ RecoveryState(r) = "RESPONDED" => Len(RecordsOf(r, "Recovery")) = 1)
    /\ [][\A r \in reqs :
            \/ RecoveryState(r)' = RecoveryState(r)
            \/ <<RecoveryState(r), RecoveryState(r)'>> \in C18_Transitions]_vars

(* C18 witness: a request whose handlers set status 204, registered two errors
   and aborted the chain ended in COMPLETED, with all that in place. *)
C18_Witness ==
    \E r \in reqs :
        /\ RecoveryState(r) = "COMPLETED"
        /\ c[r].phase = "done"
        /\ c[r].status = 204
        /\ Len(c[r].Errors) = 2
        /\ IsAborted(c[r])

(* the records the access logger writes for r when r runs alone, rebuilt from
   r's own history: its inbound path and query, the status and errors its own
   downstream left, its own start and end instants *)
C19_AccessAlone(r) ==
    LET errs == g[r].snapL.Errors
    IN  IF Len(errs) > 0
        THEN [i \in 1..Len(errs) |-> Record(r, "Logger", ErrorLevel, TextOf(errs[i]), <<>>)]
        ELSE << Record(r, "Logger", conf.lvl, g[r].path0,
                  << Field("status", "Int", g[r].snapL.status),
                     Field("method", "String", "GET"),
                     Field("path", "String", g[r].path0),
                     Field("query", "String", g[r].query0),
                     Field("ip", "String", "192.0.2.1"),
                     Field("user-agent", "String", "curl/7.29.0"),
                     Field("time", "String", C12_Stamp(g[r].endL, conf.utc)),
                     Field("latency", "Duration", g[r].endL - g[r].startL),
                     Field("cf_path", "String", g[r].snapL.Path),
                     Field("cf_errors", "Int", 0) >>) >>

(* the record of Recovery for r is r's own: its panic value, its path, the
   instant of its catch, the dump of its request *)
C19_RecoveryOwn(r, rec) ==
    /\ rec.level = ErrorLevel
    /\ rec.msg = (IF g[r].caught \in C16_BrokenConnections
                  THEN g[r].snapR.Path ELSE "[Recovery from panic]")
    /\ FieldValues(rec, "error") = {g[r].caught}
    /\ FieldValues(rec, "request") =
           { "GET " \o g[r].path0 \o (IF g[r].query0 = "" THEN "" ELSE "?" \o g[r].query0)
             \o " HTTP/1.1\r\nHost: example.com\r\n\r\n" }
    /\ FieldValues(rec, "time") \subseteq {C12_Stamp(g[r].catchT, rconf.utc)}
    /\ FieldValues(rec, "cf_path") \subseteq {g[r].snapR.Path}

(* C19: with requests served concurrently by the same middlewares, under every
   interleaving of their steps, the records of each request are those it gets
   when it runs alone, each holding that request's own captured path and
   query, status, errors and instants: the access logger's records once it
   has finished (none before, none when the panic passed it), one record of
   Recovery if and only if it caught a panic of that request; and no step
   changes the configuration of either middleware. *)
C19_Isolation ==
    /\ [](\A r \in reqs :
            /\ RecordsOf(r, "Logger") = (IF g[r].exitL THEN C19_AccessAlone(r) ELSE <<>>)
            /\ Len(RecordsOf(r, "Recovery")) = (IF g[r].caught # NoPanic THEN 1 ELSE 0)
            /\ \A i \in 1..Len(RecordsOf(r, "Recovery")) :
                  C19_RecoveryOwn(r, RecordsOf(r, "Recovery")[i])
            /\ Len(logs) = Len(RecordsOf(1, "Logger")) + Len(RecordsOf(1, "Recovery"))
                           + Len(RecordsOf(2, "Logger")) + Len(RecordsOf(2, "Recovery")))
    /\ [][conf' = conf /\ rconf' = rconf /\ coreLevel' = coreLevel /\ handlers' = handlers]_vars

(* C19 witness: request 1 for /test and request 2 for /no_log ran interleaved:
   request 2 entered the access logger before request 1 was over and was
   logged first, with its own path and latency 1, and request 1's panic was
   then logged by Recovery with /test in its dump. *)
C19_Witness ==
    /\ c[1].phase = "done"
    /\ c[2].phase = "done"
    /\ g[1].path0 = "/test"
    /\ g[2].path0 = "/no_log"
    /\ g[1].catchT > g[2].startL
    /\ Len(logs) = 2
    /\ logs[1].req = 2
    /\ logs[1].msg = "/no_log"
    /\ FieldValues(logs[1], "latency") = {1}
    /\ logs[2].req = 1
    /\ logs[2].by = "Recovery"
    /\ g[1].caught.text = "boom"

(* the access logger is attached before Recovery, as in the README *)
LoggerOutsideRecovery == handlers = <<"L", "R", "H">>

(* every record of Recovery for r comes before every record of the access
   logger for r *)
RecoveryRecordFirst(r) ==
    \A i, j \in 1..Len(logs) :
        logs[i].req = r /\ logs[j].req = r /\ logs[i].by = "Recovery" /\ logs[j].by = "Logger"
            => i < j

ErrorRecordsOf(r) == SelectSeq(logs, LAMBDA x : x.req = r /\ x.level = ErrorLevel)

(* C20, as stated: with the access logger attached before Recovery, a request
   whose handler panics gets the record of Recovery before any record of the
   access logger, and the access logger then logs it: after a generic panic
   one success record at the default level with status 500, the error list
   being empty; after a broken-connection panic one Error record whose message
   is the text of the panic error, two Error records in all. *)
C20_LoggerAfterRecovery ==
    \A r \in reqs :
        LoggerOutsideRecovery /\ g[r].caught # NoPanic /\ g[r].exitL =>
            LET recs == RecordsOf(r, "Logger")
            IN  /\ RecoveryRecordFirst(r)
                /\ Len(recs) = 1
                /\ IF CaughtGeneric(r)
                   THEN /\ recs[1].level = conf.lvl
                        /\ FieldValues(recs[1], "status") = {500}
                        /\ c[r].Errors = <<>>
                   ELSE /\ recs[1].level = ErrorLevel
                        /\ recs[1].msg = TextOf(g[r].caught)
                        /\ Len(ErrorRecordsOf(r)) = 2

(* the Error records of the access logger for the error list errs *)
C20_ErrorRecords(r, errs) ==
    IF conf.logErrorsOnce
    THEN << Record(r, "Logger", ErrorLevel,
                   C7_Message([i \in 1..Len(errs) |-> TextOf(errs[i])], Len(errs)), <<>>) >>
    ELSE [i \in 1..Len(errs) |-> Record(r, "Logger", ErrorLevel, TextOf(errs[i]), <<>>)]

(* C20, amended: with the access logger attached before Recovery, a request
   whose handler panics gets the record of Recovery before any record of the
   access logger, and the access logger, unless it skips the request, then
   logs it as its error list stands. After a generic panic the list holds the
   errors the handler registered before it panicked: if there are none, the
   access logger writes one success record at the default level with status
   500 (OnLevel writes none when the logger disables that level); if there are
   some, it writes their Error records and no success record. After a
   broken-connection panic the list holds those errors and then the panic
   error: the access logger writes their Error records, the last message being
   the text of the panic error (one numbered record with log_errors_once), so
   the request has two Error records in all when the handler registered no
   error. *)
C20_LoggerLogsErrorListAfterRecovery ==
    \A r \in reqs :
        LoggerOutsideRecovery /\ g[r].caught # NoPanic =>
            LET recs == RecordsOf(r, "Logger")
                pre == g[r].snapR.Errors
            IN  /\ RecoveryRecordFirst(r)
                /\ Len(RecordsOf(r, "Recovery")) = 1
                /\ ~g[r].exitL \/ g[r].skipped => recs = <<>>
                /\ g[r].exitL /\ ~g[r].skipped =>
                       IF CaughtGeneric(r)
                       THEN /\ c[r].Errors = pre
                            /\ IF pre # <<>> THEN recs = C20_ErrorRecords(r, pre)
                               ELSE IF conf.variant = "OnLevel" /\ conf.lvl < coreLevel
                               THEN recs = <<>>
                               ELSE /\ Len(recs) = 1
                                    /\ recs[1].level = conf.lvl
                                    /\ conf.lvl # ErrorLevel
                                    /\ FieldValues(recs[1], "status") = {500}
                       ELSE /\ c[r].Errors = pre \o <<g[r].caught>>
                            /\ recs = C20_ErrorRecords(r, pre \o <<g[r].caught>>)
                            /\ pre = <<>> /\ ~conf.logErrorsOnce =>
                                   /\ recs[1].msg = TextOf(g[r].caught)
                                   /\ Len(ErrorRecordsOf(r)) = 2

(* C20 witness: Ginzap's OnLevel outside Recovery: the handler panicked with
   "boom", Recovery wrote its record, then the access logger wrote one success
   record with status 500. *)
C20_Witness ==
    \E r \in reqs :
        /\ LoggerOutsideRecovery
        /\ conf.variant = "OnLevel"
        /\ g[r].caught.text = "boom"
        /\ c[r].phase = "done"
        /\ Len(logs) = 2
        /\ logs[1].by = "Recovery"
        /\ logs[2].by = "Logger"
        /\ logs[2].level = InfoLevel
        /\ FieldValues(logs[2], "status") = {500}

====
